---- MODULE Spec2Model ----
(***************************************************************************)
(* Model of zennit/canonizers.py: reversible fusion of batch-norm          *)
(* parameters into neighbouring linear modules.                            *)
(*                                                                         *)
(* Tensors are exact integer tensors.  A module weight is a three-level    *)
(* sequence W[a0][a1][t]: axis 0, axis 1 and one spatial kernel axis (the  *)
(* second spatial axis of a 2-d kernel has extent 1, groups = 1).  A       *)
(* vector is a sequence.  An absent bias (None) is the empty sequence.     *)
(* Division and square root are exact: the parameter tables below only     *)
(* hold values on which they are exact, and an inexact one stops TLC.      *)
(***************************************************************************)
EXTENDS Integers, Sequences, FiniteSets, TLC

\* ---- bounds of the model -------------------------------------------------
MaxChannels == 2      \* channel counts range over 1..MaxChannels
MaxKernel == 2        \* kernel extents range over 1..MaxKernel
NumSeeds == 2         \* number of weight / input value patterns
MaxEntries == 2       \* longest name map of NamedMergeBatchNorm
MaxLeaves == 4        \* longest leaf sequence scanned by the matchers
MaxCanonizers == 2    \* longest constituent list of a CompositeCanonizer
MaxInput == 4         \* activation values compared with a baseline: -MaxInput..MaxInput

\* ---- plain helpers -------------------------------------------------------
None == << >>
Abs(a) == IF a < 0 THEN -a ELSE a
Max(a, b) == IF a >= b THEN a ELSE b
Zeros(n) == [i \in 1..n |-> 0]
Ones(n) == [i \in 1..n |-> 1]

\* x ** .5 and a / b on the values on which they are exact
Sqrt(n) == CHOOSE r \in 0..n : r * r = n
Div(a, b) == CHOOSE q \in -Abs(a)..Abs(a) : q * b = a

RECURSIVE SumSeq(_)
SumSeq(s) == IF Len(s) = 0 THEN 0 ELSE s[1] + SumSeq(Tail(s))

RECURSIVE Reverse(_)
Reverse(s) == IF Len(s) = 0 THEN << >> ELSE Append(Reverse(Tail(s)), s[1])

\* ---- broadcasting (torch semantics of the * and + used by the merges) ----
\* two extents broadcast when they are equal or one of them is 1
Compat(d, c) == d = c \/ d = 1 \/ c = 1
BIdx(i, d) == IF d = 1 THEN 1 ELSE i
VAt(v, i) == v[BIdx(i, Len(v))]
VCompat(a, b) == Compat(Len(a), Len(b))

AxisLen(W, axis) == IF axis = 0 THEN Len(W) ELSE Len(W[1])
AxisCompat(W, v, axis) == Compat(AxisLen(W, axis), Len(v))

\* W * v[index] with v laid along axis 0 (index = (:, None, ...)) or along
\* axis 1 (index = (None, :, None, ...))
MulAxis(W, v, axis) ==
    IF axis = 0
    THEN [a \in 1..Max(Len(W), Len(v)) |->
            [b \in 1..Len(W[1]) |->
               [t \in 1..Len(W[1][1]) |-> W[BIdx(a, Len(W))][b][t] * VAt(v, a)]]]
    ELSE [a \in 1..Len(W) |->
            [b \in 1..Max(Len(W[1]), Len(v)) |->
               [t \in 1..Len(W[1][1]) |-> W[a][BIdx(b, Len(W[1]))][t] * VAt(v, b)]]]

\* ---- node classification (zennit.types) ----------------------------------
LinearKinds == {"Linear", "Conv1d", "Conv2d", "ConvTranspose2d"}
BatchNormKinds == {"BatchNorm1d", "BatchNorm2d"}
ConvolutionTransposeKinds == {"ConvTranspose2d"}
IsLinear(kind) == kind \in LinearKinds
IsBatchNorm(kind) == kind \in BatchNormKinds
IsConvolutionTranspose(kind) == kind \in ConvolutionTransposeKinds

\* ---- the affine map of a batch norm --------------------------------------
\* denominator = (running_var + eps) ** .5 ; scale = weight / denominator
Scale(N) ==
    [c \in 1..Len(N.weight) |-> Div(N.weight[c], Sqrt(N.running_var[c] + N.eps))]
\* shift = bias - running_mean * scale
Shift(N, scale) ==
    [c \in 1..Len(N.weight) |-> N.bias[c] - N.running_mean[c] * scale[c]]

\* batch norm parameters that produce the identity
ResetBatchNorm(N) ==
    [N EXCEPT !.running_mean = Zeros(Len(N.running_mean)),
              !.running_var = Ones(Len(N.running_var)),
              !.bias = Zeros(Len(N.bias)),
              !.weight = Ones(Len(N.weight)),
              !.eps = 0]

\* ---- MergeBatchNorm.merge_batch_norm (fusion to the left) ----------------
\* the outcome of a call: the graph it leaves, the exception it raised, the
\* hook handles it returns and the next free handle id
Outcome(ns, e, handles, ctr) ==
    [nodes |-> ns, err |-> e, handles |-> handles, ctr |-> ctr]

\* if module.bias is None: module.bias = Parameter(zero)
WithBias(ns, m, zero) ==
    IF ns[m].bias = None THEN [ns EXCEPT ![m].bias = zero] ELSE ns

\* the zero bias given to a module without bias
LeftZeroBias(m) == Zeros(1)

\* the axis of the weight along which scale is laid
LeftAxis(kind) == IF IsConvolutionTranspose(kind) THEN 1 ELSE 0

\* a fused bias that leaves the running mean out: original_bias * scale + bias
LeftBias_NoMean(b, N, scale) ==
    [i \in 1..Max(Len(b), Len(scale)) |-> VAt(b, i) * VAt(scale, i) + VAt(N.bias, i)]
\* (original_bias - running_mean) * scale + bias
LeftBias(b, N, scale) ==
    [i \in 1..Max(Len(b), Len(scale)) |->
        (VAt(b, i) - VAt(N.running_mean, i)) * VAt(scale, i) + VAt(N.bias, i)]

\* the two assignments to module.weight.data and module.bias.data; n1 is the
\* graph once the bias exists, a shape that does not broadcast raises
LeftAssign(n1, m, N, scale) ==
    IF ~ AxisCompat(n1[m].weight, scale, LeftAxis(n1[m].kind))
    THEN Outcome(n1, "RuntimeError", << >>, 0)
    ELSE IF ~ VCompat(n1[m].bias, scale)
    THEN Outcome([n1 EXCEPT ![m].weight = MulAxis(@, scale, LeftAxis(n1[m].kind))],
                 "RuntimeError", << >>, 0)
    ELSE Outcome([n1 EXCEPT ![m].weight = MulAxis(@, scale, LeftAxis(n1[m].kind)),
                            ![m].bias = LeftBias(@, N, scale)],
                 "none", << >>, 0)

\* the body of the loop over modules
MergeLeftModule(ns, m, bn, scale) ==
    LeftAssign(WithBias(ns, m, LeftZeroBias(ns[m])), m, ns[bn], scale)

RECURSIVE MergeLeftModules(_, _, _, _, _)
MergeLeftNext(r, modules, j, bn, scale) ==
    IF r.err # "none" THEN r
    ELSE MergeLeftModules(r.nodes, modules, j + 1, bn, scale)
MergeLeftModules(ns, modules, j, bn, scale) ==
    IF j > Len(modules) THEN Outcome(ns, "none", << >>, 0)
    ELSE MergeLeftNext(MergeLeftModule(ns, modules[j], bn, scale), modules, j, bn, scale)

\* change batch_norm parameters to produce identity, when the loop returned
ResetAfter(r, bn) ==
    IF r.err # "none" THEN r
    ELSE [r EXCEPT !.nodes = [@ EXCEPT ![bn] = ResetBatchNorm(@)]]

MergeLeft(ns, modules, bn) ==
    ResetAfter(MergeLeftModules(ns, modules, 1, bn, Scale(ns[bn])), bn)

\* ---- MergeBatchNormtoRight.merge_batch_norm (fusion to the right) --------
\* module.out_channels: a convolution has the attribute, torch.nn.Linear
\* (out_features) has not
HasOutChannels(kind) == kind # "Linear"
OutChannels(m) ==
    IF IsConvolutionTranspose(m.kind) THEN Len(m.weight[1]) ELSE Len(m.weight)

RightAxis(kind) == IF IsConvolutionTranspose(kind) THEN 0 ELSE 1

\* P.sum(dim=[1, 2, 3]) (and P.sum(dim=1) of a 2-d weight): one value per
\* index of axis 0
SumInputs(P) ==
    [a \in 1..Len(P) |->
        SumSeq([b \in 1..Len(P[a]) |-> SumSeq(P[a][b])])]

VAdd(a, b) == [i \in 1..Max(Len(a), Len(b)) |-> VAt(a, i) + VAt(b, i)]

\* (original_weight * shift[index]).sum(dim=[1, 2, 3]) + original_bias and
\* (original_weight * shift).sum(dim=1) + original_bias
RightBias(W, shift, b) == VAdd(SumInputs(MulAxis(W, shift, 1)), b)

\* which modules get the closed-form bias, which a bias kernel
IsConv2d(kind) == kind = "Conv2d"
IsTorchLinear(kind) == kind = "Linear"
ZeroPadding(m) == m.padding = <<0, 0>>

\* a bias kernel without the borders: every row the interior response
BiasKernel_NoBorder(W, shift, pad) ==
    [o \in 1..Len(W) |->
       [j \in 1..(2 * pad + 1) |->
          SumSeq([i \in 1..Len(W[o]) |->
             SumSeq([t \in 1..Len(W[1][1]) |-> W[o][i][t] * shift[i]])])]]

\* temp_module(bias_kernel): the bias-free convolution with the module's
\* padding (stride 1) of a kernel-sized map whose pixels are shift
BiasKernel(W, shift, pad) ==
    [o \in 1..Len(W) |->
       [j \in 1..(2 * pad + 1) |->
          SumSeq([i \in 1..Len(W[o]) |->
             SumSeq([t \in 1..Len(W[1][1]) |->
                IF j + t - 1 - pad >= 1 /\ j + t - 1 - pad <= Len(W[1][1])
                THEN W[o][i][t] * shift[i] ELSE 0])])]]

\* canonization_params with none of its keys set (an absent tensor has rank 0)
NoParams == [weights |-> None, biases |-> None,
             original_x |-> [rank |-> 0, v |-> None], bias_kernel |-> None]

\* the assignments to one module; n1 is the graph once the bias exists, W
\* and b are original_weight and original_bias
RightAssign(n1, m, W, b, scale, shift, ctr) ==
    IF ~ AxisCompat(W, scale, RightAxis(n1[m].kind))
    THEN Outcome(n1, "RuntimeError", << >>, ctr)
    ELSE IF IsConv2d(n1[m].kind) /\ ZeroPadding(n1[m])
    THEN Outcome([n1 EXCEPT ![m].weight = MulAxis(W, scale, RightAxis(n1[m].kind)),
                            ![m].bias = RightBias(W, shift, b)],
                 "none", << >>, ctr)
    ELSE IF IsConv2d(n1[m].kind) /\ Len(shift) # Len(W[1])
    THEN Outcome([n1 EXCEPT ![m].weight = MulAxis(W, scale, RightAxis(n1[m].kind))],
                 "RuntimeError", << >>, ctr)
    ELSE IF IsConv2d(n1[m].kind)
    THEN Outcome([n1 EXCEPT ![m].weight = MulAxis(W, scale, RightAxis(n1[m].kind)),
                            ![m].has_cp = TRUE,
                            ![m].cp = [NoParams EXCEPT !.bias_kernel =
                                          BiasKernel(W, shift, n1[m].padding[1])],
                            ![m].hooks = Append(@, [id |-> ctr, fn |-> "convhook"])],
                 "none", << [node |-> m, id |-> ctr] >>, ctr + 1)
    ELSE IF IsTorchLinear(n1[m].kind)
    THEN Outcome([n1 EXCEPT ![m].weight = MulAxis(W, scale, RightAxis(n1[m].kind)),
                            ![m].bias = RightBias(W, shift, b)],
                 "none", << >>, ctr)
    ELSE Outcome([n1 EXCEPT ![m].weight = MulAxis(W, scale, RightAxis(n1[m].kind))],
                 "none", << >>, ctr)

RightAssignOf(n1, m, scale, shift, ctr) ==
    RightAssign(n1, m, n1[m].weight, n1[m].bias, scale, shift, ctr)

\* the body of the loop over modules
MergeRightModule(ns, m, scale, shift, ctr) ==
    IF ns[m].bias = None /\ ~ HasOutChannels(ns[m].kind)
    THEN Outcome(ns, "AttributeError", << >>, ctr)
    ELSE RightAssignOf(WithBias(ns, m, Zeros(OutChannels(ns[m]))), m, scale, shift, ctr)

RECURSIVE MergeRightModules(_, _, _, _, _, _, _)
MergeRightNext(r, modules, j, scale, shift, handles) ==
    IF r.err # "none" THEN r
    ELSE MergeRightModules(r.nodes, modules, j + 1, scale, shift,
                           handles \o r.handles, r.ctr)
MergeRightModules(ns, modules, j, scale, shift, handles, ctr) ==
    IF j > Len(modules) THEN Outcome(ns, "none", handles, ctr)
    ELSE MergeRightNext(MergeRightModule(ns, modules[j], scale, shift, ctr),
                        modules, j, scale, shift, handles)

MergeRightWith(ns, modules, bn, scale, ctr) ==
    ResetAfter(MergeRightModules(ns, modules, 1, scale, Shift(ns[bn], scale), << >>, ctr),
               bn)
MergeRight(ns, modules, bn, ctr) ==
    MergeRightWith(ns, modules, bn, Scale(ns[bn]), ctr)

\* ---- canonizer instances: register -----------------------------------------
\* linear_params and batch_norm_params: the .data of the parameters at the
\* time of the call
LinearParams(ns, linears) ==
    [j \in 1..Len(linears) |->
        [weight |-> ns[linears[j]].weight, bias |-> ns[linears[j]].bias]]
BatchNormParams(N) ==
    [weight |-> N.weight, bias |-> N.bias,
     running_mean |-> N.running_mean, running_var |-> N.running_var]

\* a copy() of the canonizer after the first lines of register
Snapshot(cls, ns, linears, bn, relu) ==
    [cls |-> cls, linears |-> linears, batch_norm |-> bn, relu |-> relu,
     linear_params |-> LinearParams(ns, linears),
     batch_norm_params |-> BatchNormParams(ns[bn]),
     batch_norm_eps |-> ns[bn].eps,
     handles |-> << >>]

\* what register leaves: the outcome of the merge and the instance; the
\* handles are appended to self.handles only when the merge returned
Registered(r, snap) ==
    [nodes |-> r.nodes, err |-> r.err, ctr |-> r.ctr,
     inst |-> IF r.err = "none" THEN [snap EXCEPT !.handles = @ \o r.handles] ELSE snap]

\* MergeBatchNorm.register
RegisterLeft(cls, ns, linears, bn, ctr) ==
    Registered([MergeLeft(ns, linears, bn) EXCEPT !.ctr = ctr],
               Snapshot(cls, ns, linears, bn, 0))

\* MergeBatchNormtoRight.register
RegisterRight(cls, ns, linears, bn, relu, ctr) ==
    Registered(MergeRight(ns, linears, bn, ctr), Snapshot(cls, ns, linears, bn, relu))

\* the scale and shift ThreshReLUMergeBatchNorm.register stores on the relu
ThreshParams(N) ==
    [NoParams EXCEPT !.weights = Scale(N), !.biases = Shift(N, Scale(N))]

\* the two hooks register installs on the relu once super().register returned
WithThreshHooks(r, relu) ==
    IF r.err # "none" THEN r
    ELSE [nodes |-> [r.nodes EXCEPT ![relu].hooks =
                        @ \o << [id |-> r.ctr, fn |-> "prehook"],
                                [id |-> r.ctr + 1, fn |-> "fwdhook"] >>],
          err |-> "none", ctr |-> r.ctr + 2,
          inst |-> [r.inst EXCEPT !.handles =
                        @ \o << [node |-> relu, id |-> r.ctr],
                                [node |-> relu, id |-> r.ctr + 1] >>]]

\* ThreshReLUMergeBatchNorm.register
RegisterThresh(cls, ns, linears, bn, relu, ctr) ==
    WithThreshHooks(
        RegisterRight(cls,
            [ns EXCEPT ![relu].has_cp = TRUE, ![relu].cp = ThreshParams(ns[bn])],
            linears, bn, relu, ctr),
        relu)

\* ---- canonizer instances: remove -------------------------------------------
\* what remove() does to a bias that was None at register
RestoreNoBias(b) == None

\* a remove() that leaves batch_norm.eps as it is
RestoreEps_Keep(eps, inst) == eps
\* what remove() does to batch_norm.eps
RestoreEps(eps, inst) == inst.batch_norm_eps

\* the body of the loop over zip(self.linears, self.linear_params)
RestoreLinear(ns, m, saved) ==
    IF saved.bias = None
    THEN Outcome([ns EXCEPT ![m].weight = saved.weight, ![m].bias = RestoreNoBias(@)],
                 "none", << >>, 0)
    ELSE IF ns[m].bias = None
    THEN Outcome([ns EXCEPT ![m].weight = saved.weight], "AttributeError", << >>, 0)
    ELSE Outcome([ns EXCEPT ![m].weight = saved.weight, ![m].bias = saved.bias],
                 "none", << >>, 0)

RECURSIVE RestoreLinears(_, _, _)
RestoreNext(r, inst, j) ==
    IF r.err # "none" THEN r ELSE RestoreLinears(r.nodes, inst, j + 1)
RestoreLinears(ns, inst, j) ==
    IF j > Len(inst.linears) THEN Outcome(ns, "none", << >>, 0)
    ELSE RestoreNext(RestoreLinear(ns, inst.linears[j], inst.linear_params[j]), inst, j)

\* the loop over self.batch_norm_params and the assignment of eps
RestoreBatchNorm(r, inst) ==
    IF r.err # "none" THEN r
    ELSE [r EXCEPT !.nodes = [@ EXCEPT
             ![inst.batch_norm] = [@ EXCEPT
                 !.weight = inst.batch_norm_params.weight,
                 !.bias = inst.batch_norm_params.bias,
                 !.running_mean = inst.batch_norm_params.running_mean,
                 !.running_var = inst.batch_norm_params.running_var,
                 !.eps = RestoreEps(@, inst)]]]

\* MergeBatchNorm.remove
RemoveLeft(ns, inst) == RestoreBatchNorm(RestoreLinears(ns, inst, 1), inst)

\* h.remove() for every handle: the hook with that id leaves its module
HandleIds(handles) == {handles[i].id : i \in 1..Len(handles)}
DetachHooks(ns, handles) ==
    [n \in 1..Len(ns) |->
        [ns[n] EXCEPT !.hooks =
            SelectSeq(@, LAMBDA h : h.id \notin HandleIds(handles))]]

\* delattr(module, "canonization_params") for the padded Conv2d modules
RECURSIVE DelConvParams(_, _, _)
DelConvParams(ns, linears, j) ==
    IF j > Len(linears) THEN Outcome(ns, "none", << >>, 0)
    ELSE IF ~ (IsConv2d(ns[linears[j]].kind) /\ ~ ZeroPadding(ns[linears[j]]))
    THEN DelConvParams(ns, linears, j + 1)
    ELSE IF ~ ns[linears[j]].has_cp THEN Outcome(ns, "AttributeError", << >>, 0)
    ELSE DelConvParams([ns EXCEPT ![linears[j]].has_cp = FALSE,
                                  ![linears[j]].cp = NoParams], linears, j + 1)

RemoveHandles(r, inst) ==
    IF r.err # "none" THEN r
    ELSE DelConvParams(DetachHooks(r.nodes, inst.handles), inst.linears, 1)

\* MergeBatchNormtoRight.remove
RemoveRight(ns, inst) == RemoveHandles(RemoveLeft(ns, inst), inst)

\* delattr(self.relu, "canonization_params")
DelReluParams(r, relu) ==
    IF r.err # "none" THEN r
    ELSE IF ~ r.nodes[relu].has_cp THEN [r EXCEPT !.err = "AttributeError"]
    ELSE [r EXCEPT !.nodes = [@ EXCEPT ![relu].has_cp = FALSE, ![relu].cp = NoParams]]

\* ThreshReLUMergeBatchNorm.remove
RemoveThresh(ns, inst) == DelReluParams(RemoveRight(ns, inst), inst.relu)

LeftClasses == {"SequentialMergeBatchNorm", "NamedMergeBatchNorm"}

\* instance.remove(), dispatched on the class of the instance
Remove(ns, inst) ==
    IF inst.cls \in LeftClasses THEN RemoveLeft(ns, inst)
    ELSE IF inst.cls = "MergeBatchNormtoRight" THEN RemoveRight(ns, inst)
    ELSE RemoveThresh(ns, inst)

\* ---- forward evaluation ----------------------------------------------------
\* An activation tensor of one sample is [rank, v]: its rank as torch sees it
\* (2: [N, C]; 3: [N, C, L]; 4: [N, C, H, W]) and its values v[c][h], one
\* sequence of positions per index of axis 1 (of a rank-2 tensor: one value
\* each).  A tensor [1, C, 1, F] has rank 4 and v[c][f].
Tensor(rank, v) == [rank |-> rank, v |-> v]
ShapeError == [rank |-> 0, v |-> << >>]
Extent(T) == IF Len(T.v) = 0 THEN 0 ELSE Len(T.v[1])

\* the evaluation-mode batch norm
BatchNormForward(N, T) ==
    IF T = ShapeError \/ Len(T.v) # Len(N.weight) THEN ShapeError
    ELSE LET scale == Scale(N)
         IN Tensor(T.rank,
               [c \in 1..Len(T.v) |->
                  [h \in 1..Len(T.v[c]) |->
                     (T.v[c][h] - N.running_mean[c]) * scale[c] + N.bias[c]]])

ReLUForward(T) ==
    IF T = ShapeError THEN ShapeError
    ELSE Tensor(T.rank,
            [c \in 1..Len(T.v) |->
               [h \in 1..Len(T.v[c]) |-> IF T.v[c][h] > 0 THEN T.v[c][h] ELSE 0]])

\* AdaptiveAvgPool2d to one pixel, followed by the flattening of the result
PoolForward(T) ==
    IF T = ShapeError \/ T.rank # 4 THEN ShapeError
    ELSE Tensor(2, [c \in 1..Len(T.v) |-> << Div(SumSeq(T.v[c]), Len(T.v[c])) >>])

BiasAt(b, o) == IF b = None THEN 0 ELSE b[o]

\* torch.nn.Linear: an affine map of the last axis
FullyConnected(m, T) ==
    LET W == m.weight
        Row(x) == [o \in 1..Len(W) |->
                     SumSeq([i \in 1..Len(x) |-> W[o][i][1] * x[i]]) + BiasAt(m.bias, o)]
    IN IF T = ShapeError THEN ShapeError
       ELSE IF T.rank = 2
       THEN IF Len(T.v) # Len(W[1]) THEN ShapeError
            ELSE LET y == Row([i \in 1..Len(T.v) |-> T.v[i][1]])
                 IN Tensor(2, [o \in 1..Len(y) |-> << y[o] >>])
       ELSE IF Extent(T) # Len(W[1]) THEN ShapeError
            ELSE Tensor(T.rank, [c \in 1..Len(T.v) |-> Row(T.v[c])])

\* a convolution along the modelled spatial axis, zero padding pad, stride
OutExtent(n, k, pad, stride) == ((n + 2 * pad - k) \div stride) + 1
Convolution(m, T, rank) ==
    LET W == m.weight
        k == Len(W[1][1])
        pad == m.padding[1]
        stride == m.stride[1]
        n == Extent(T)
        X(i, r) == IF r >= 1 /\ r <= n THEN T.v[i][r] ELSE 0
    IN IF T = ShapeError \/ T.rank # rank \/ Len(T.v) # Len(W[1]) \/ n + 2 * pad < k
       THEN ShapeError
       ELSE Tensor(rank,
              [o \in 1..Len(W) |->
                 [j \in 1..OutExtent(n, k, pad, stride) |->
                    SumSeq([i \in 1..Len(W[o]) |->
                       SumSeq([t \in 1..k |->
                          W[o][i][t] * X(i, (j - 1) * stride + t - pad)])])
                    + BiasAt(m.bias, o)]])

\* a transposed convolution (stride 1, no padding)
ConvolutionTranspose(m, T) ==
    LET W == m.weight
        k == Len(W[1][1])
        n == Extent(T)
        X(i, r) == IF r >= 1 /\ r <= n THEN T.v[i][r] ELSE 0
    IN IF T = ShapeError \/ T.rank # 4 \/ Len(T.v) # Len(W) THEN ShapeError
       ELSE Tensor(4,
              [o \in 1..Len(W[1]) |->
                 [j \in 1..(n + k - 1) |->
                    SumSeq([i \in 1..Len(W) |->
                       SumSeq([t \in 1..k |-> W[i][o][t] * X(i, j - t + 1)])])
                    + BiasAt(m.bias, o)]])

\* module.forward
ModuleForward(m, T) ==
    IF IsBatchNorm(m.kind) THEN BatchNormForward(m, T)
    ELSE IF m.kind = "ReLU" THEN ReLUForward(T)
    ELSE IF m.kind = "AdaptiveAvgPool2d" THEN PoolForward(T)
    ELSE IF m.kind = "Linear" THEN FullyConnected(m, T)
    ELSE IF m.kind = "Conv1d" THEN Convolution(m, T, 3)
    ELSE IF m.kind = "Conv2d" THEN Convolution(m, T, 4)
    ELSE IF m.kind = "ConvTranspose2d" THEN ConvolutionTranspose(m, T)
    ELSE T

\* ---- the hooks ---------------------------------------------------------------
\* ThreshReLUMergeBatchNorm.prehook
PreHook(m, T) == [m EXCEPT !.cp = [@ EXCEPT !.original_x = T]]

\* a baseline without the sign flip: biases / weights
BaselineVals_NoNegation(cp) ==
    [c \in 1..Len(cp.weights) |-> Div(cp.biases[c], cp.weights[c])]
\* baseline_vals = -1. * (biases / weights)
BaselineVals(cp) ==
    [c \in 1..Len(cp.weights) |-> -1 * Div(cp.biases[c], cp.weights[c])]

\* y > 0 for the value x of channel c, y = weights * x + biases
BranchTaken(cp, c, x) == cp.weights[c] * x + cp.biases[c] > 0

\* ThreshReLUMergeBatchNorm.fwdhook.  index lays weights and biases out as
\* [1, C, 1, 1]; against a rank-4 input [1, C, H, 1] that is one value per
\* channel, against a rank-2 input [1, F] broadcasting gives [1, C, 1, F].
\* (A rank-3 input is outside the model.)
FwdHook(m, T, y) ==
    LET cp == m.cp
        x == cp.original_x
        C == Len(cp.weights)
        base == BaselineVals(cp)
        Where(c, xv) == IF BranchTaken(cp, c, xv) THEN xv ELSE base[c]
    IN IF x.rank = 4
       THEN IF ~ Compat(C, Len(x.v)) THEN ShapeError
            ELSE Tensor(4, [c \in 1..Max(C, Len(x.v)) |->
                     [h \in 1..Extent(x) |->
                        Where(BIdx(c, C), x.v[BIdx(c, Len(x.v))][h])]])
       ELSE IF x.rank = 2
       THEN Tensor(4, [c \in 1..C |->
                     [f \in 1..Len(x.v) |-> Where(c, x.v[f][1])]])
       ELSE ShapeError

\* MergeBatchNormtoRight.convhook along the modelled spatial axis (pad2 = 0)
ConvHook(m, T, y) ==
    LET k == Len(m.weight[1][1])
        n == Extent(T)
        pad1 == m.padding[1]
        Expanded(row) ==
            IF pad1 > 0
            THEN SubSeq(row, 1, pad1) \o [i \in 1..(n - k + 1) |-> row[pad1 + 1]]
                 \o SubSeq(row, pad1 + 2, Len(row))
            ELSE row
        Strided(row) ==
            IF m.stride[1] > 1 \/ m.stride[2] > 1
            THEN [q \in 1..(((Len(row) - 1) \div m.stride[1]) + 1) |->
                     row[(q - 1) * m.stride[1] + 1]]
            ELSE row
        bias_kernel == [o \in 1..Len(m.cp.bias_kernel) |->
                          Strided(Expanded(m.cp.bias_kernel[o]))]
    IN IF y = ShapeError \/ n - k + 1 < 0 \/ Len(y.v) # Len(bias_kernel)
          \/ ~ Compat(Extent(y), Len(bias_kernel[1]))
       THEN ShapeError
       ELSE Tensor(y.rank, [o \in 1..Len(y.v) |-> VAdd(y.v[o], bias_kernel[o])])

\* module(x): the forward pre-hooks, forward, then the forward hooks, each
\* in the order of registration
RECURSIVE RunPreHooks(_, _, _)
RunPreHooks(m, T, j) ==
    IF j > Len(m.hooks) THEN m
    ELSE IF m.hooks[j].fn = "prehook" THEN RunPreHooks(PreHook(m, T), T, j + 1)
    ELSE RunPreHooks(m, T, j + 1)

RECURSIVE RunForwardHooks(_, _, _, _)
RunForwardHooks(m, T, y, j) ==
    IF j > Len(m.hooks) THEN y
    ELSE IF m.hooks[j].fn = "fwdhook" THEN RunForwardHooks(m, T, FwdHook(m, T, y), j + 1)
    ELSE IF m.hooks[j].fn = "convhook" THEN RunForwardHooks(m, T, ConvHook(m, T, y), j + 1)
    ELSE RunForwardHooks(m, T, y, j + 1)

Called(m1, T) ==
    [node |-> m1, out |-> RunForwardHooks(m1, T, ModuleForward(m1, T), 1)]
CallModule(m, T) == Called(RunPreHooks(m, T, 1), T)

\* the forward pass through the leaves from .. to
RECURSIVE Run(_, _, _, _)
RunNext(r, ns, from, to) == Run([ns EXCEPT ![from] = r.node], from + 1, to, r.out)
Run(ns, from, to, T) ==
    IF from > to THEN [nodes |-> ns, out |-> T]
    ELSE RunNext(CallModule(ns[from], T), ns, from, to)

\* ---- the modules of the graphs explored --------------------------------------
\* parameter values: every tensor is filled from a fixed pattern
WeightValue(a, b, t) == ((2 * a + 3 * b + 5 * t) % 5) - 2
BiasValue(o) == 3 - 2 * o
InputValue(seed, c, h) == ((3 * seed + 2 * c + h) % 5) - 2

\* per-channel batch norm parameters <<weight, bias, running_mean,
\* running_var>> with eps = 1: sqrt(running_var + eps) divides weight and the
\* resulting scale divides shift
BatchNormTable ==
    << <<2, 2, 1, 3>>,      \* scale  1, shift  1
       <<-2, 4, 1, 0>>,     \* scale -2, shift  6
       <<2, -2, 1, 0>> >>   \* scale  2, shift -4
BatchNormRow(profile, c) == BatchNormTable[((profile + c) % 3) + 1]

Module(kind) ==
    [kind |-> kind, weight |-> None, bias |-> None,
     running_mean |-> None, running_var |-> None, eps |-> 0,
     padding |-> <<0, 0>>, stride |-> <<1, 1>>,
     hooks |-> << >>, has_cp |-> FALSE, cp |-> NoParams]

\* a linear module with d0 x d1 x k weight
LinearModule(kind, d0, d1, k, hasBias, pad, stride) ==
    [Module(kind) EXCEPT
        !.weight = [a \in 1..d0 |-> [b \in 1..d1 |-> [t \in 1..k |-> WeightValue(a, b, t)]]],
        !.bias = IF hasBias
                 THEN [o \in 1..(IF IsConvolutionTranspose(kind) THEN d1 ELSE d0) |->
                          BiasValue(o)]
                 ELSE None,
        !.padding = <<pad, 0>>,
        !.stride = <<stride, 1>>]

BatchNormModule(kind, C, profile) ==
    [Module(kind) EXCEPT
        !.weight = [c \in 1..C |-> BatchNormRow(profile, c)[1]],
        !.bias = [c \in 1..C |-> BatchNormRow(profile, c)[2]],
        !.running_mean = [c \in 1..C |-> BatchNormRow(profile, c)[3]],
        !.running_var = [c \in 1..C |-> BatchNormRow(profile, c)[4]],
        !.eps = 1]

\* the shapes of linear module a pattern may hold: kind, kernel extent,
\* padding (smaller than the kernel), stride
LinearShapes ==
    {[kind |-> "Linear", k |-> 1, pad |-> 0, stride |-> 1]}
    \cup {[kind |-> kd, k |-> k, pad |-> 0, stride |-> 1] :
             kd \in {"Conv1d", "ConvTranspose2d"}, k \in 1..MaxKernel}
    \cup {sh \in [kind : {"Conv2d"}, k : 1..MaxKernel, pad : 0..(MaxKernel - 1),
                      stride : 1..2] :
             sh.pad < sh.k}

\* the rank of the input of a linear module, and the batch norm kind that
\* takes an input of that rank
InputRank(kind) == IF kind = "Linear" THEN 2 ELSE IF kind = "Conv1d" THEN 3 ELSE 4
BatchNormFor(rank) == IF rank = 4 THEN "BatchNorm2d" ELSE "BatchNorm1d"

\* a linear module whose output (out = TRUE) or input channel count is C and
\* whose other channel count is D
LinearWith(sh, C, D, out, hasBias) ==
    IF IsConvolutionTranspose(sh.kind) = out
    THEN LinearModule(sh.kind, D, C, sh.k, hasBias, sh.pad, sh.stride)
    ELSE LinearModule(sh.kind, C, D, sh.k, hasBias, sh.pad, sh.stride)

\* ---- state --------------------------------------------------------------------
VARIABLES
    nodes,      \* the leaves of the module graph, in traversal order
    instances,  \* the registered canonizer instances the caller holds
    pre,        \* the graph as it was before register / apply
    err,        \* the exception the last call raised, or "none"
    pc,         \* where the calling session stands
    cfg,        \* what the session was given: pattern, name map, canonizers
    out,        \* input, activation output and output of the last forward pass
    ctr         \* ids handed out to hook handles

vars == <<nodes, instances, pre, err, pc, cfg, out, ctr>>

NoOut == [x |-> ShapeError, act |-> ShapeError, y |-> ShapeError]
NoCfg == [cls |-> "none", linears |-> << >>, batch_norm |-> 0, relu |-> 0,
          shape |-> [kind |-> "none", k |-> 0, pad |-> 0, stride |-> 0],
          inputs |-> 0, rank |-> 0,
          names |-> << >>, name_map |-> << >>, canonizers |-> << >>]

\* ---- one matched pattern: register, forward passes, remove --------------------
PatternClasses ==
    {"SequentialMergeBatchNorm", "MergeBatchNormtoRight", "ThreshReLUMergeBatchNorm"}

\* the leaves of a pattern of class cls around a linear module of shape sh,
\* C channels at the batch norm, D at the other side of the linear module
PatternGraph(cls, sh, C, D, hasBias, profile, pool) ==
    LET bn == BatchNormModule(BatchNormFor(IF pool THEN 4 ELSE InputRank(sh.kind)), C, profile)
    IN IF cls = "SequentialMergeBatchNorm"
       THEN << LinearWith(sh, C, D, TRUE, hasBias), bn >>
       ELSE IF cls = "MergeBatchNormtoRight"
       THEN << bn, LinearWith(sh, C, D, FALSE, hasBias) >>
       ELSE IF pool
       THEN << bn, Module("ReLU"), Module("AdaptiveAvgPool2d"),
               LinearWith(sh, C, D, FALSE, hasBias) >>
       ELSE << bn, Module("ReLU"), LinearWith(sh, C, D, FALSE, hasBias) >>

PatternCfg(cls, sh, C, D, pool) ==
    [NoCfg EXCEPT
        !.cls = cls,
        !.linears = IF cls = "SequentialMergeBatchNorm" THEN <<1>>
                    ELSE IF cls = "MergeBatchNormtoRight" THEN <<2>>
                    ELSE IF pool THEN <<4>> ELSE <<3>>,
        !.batch_norm = IF cls = "SequentialMergeBatchNorm" THEN 2 ELSE 1,
        !.relu = IF cls = "ThreshReLUMergeBatchNorm" THEN 2 ELSE 0,
        !.shape = sh,
        !.inputs = IF cls = "SequentialMergeBatchNorm" THEN D ELSE C,
        !.rank = IF pool THEN 4 ELSE InputRank(sh.kind)]

InitPattern ==
    \E cls \in PatternClasses, sh \in LinearShapes, C \in 1..MaxChannels,
       D \in 1..MaxChannels, hasBias \in BOOLEAN, profile \in 1..3, pool \in BOOLEAN :
        /\ pool => (cls = "ThreshReLUMergeBatchNorm" /\ sh.kind = "Linear")
        /\ cls = "ThreshReLUMergeBatchNorm" => sh.kind # "Conv1d"
        /\ nodes = PatternGraph(cls, sh, C, D, hasBias, profile, pool)
        /\ cfg = PatternCfg(cls, sh, C, D, pool)
        /\ pre = nodes
        /\ instances = << >>
        /\ err = "none"
        /\ pc = "init"
        /\ out = NoOut
        /\ ctr = 1

\* instance.register(linears, batch_norm[, relu]) on a copy() of the canonizer
Register(cls, ns, linears, bn, relu, c) ==
    IF cls \in LeftClasses THEN RegisterLeft(cls, ns, linears, bn, c)
    ELSE IF cls = "MergeBatchNormtoRight" THEN RegisterRight(cls, ns, linears, bn, 0, c)
    ELSE RegisterThresh(cls, ns, linears, bn, relu, c)

RegisterReturns(r) ==
    /\ nodes' = r.nodes
    /\ instances' = << r.inst >>
    /\ err' = r.err
    /\ ctr' = r.ctr
    /\ pc' = IF r.err = "none" THEN "registered" ELSE "failed"

DoRegister ==
    /\ pc = "init"
    /\ RegisterReturns(Register(cfg.cls, nodes, cfg.linears, cfg.batch_norm, cfg.relu, ctr))
    /\ UNCHANGED <<pre, cfg, out>>

\* the inputs a pattern is evaluated on: extent 1 for a fully-connected
\* module and before a pooling, else the kernel extent or one more
InputExtents(c) ==
    IF c.shape.kind = "Linear" THEN {1}
    ELSE IF IsConvolutionTranspose(c.shape.kind) THEN {1, 2}
    ELSE {c.shape.k, c.shape.k + 1}
InputTensor(rank, C, n, seed) ==
    Tensor(rank, [c \in 1..C |-> [h \in 1..n |-> InputValue(seed, c, h)]])

\* the output of the relu of the pattern (of leaf cfg.relu) on input x
ActivationOf(ns, relu, x) ==
    IF relu = 0 THEN ShapeError ELSE Run(ns, 1, relu, x).out

ForwardReturns(r, x, a) ==
    /\ nodes' = r.nodes
    /\ out' = [x |-> x, act |-> a, y |-> r.out]
ForwardOn(x) ==
    ForwardReturns(Run(nodes, 1, Len(nodes), x), x, ActivationOf(nodes, cfg.relu, x))

\* one forward pass of the caller through the canonized graph
DoForward ==
    /\ pc = "registered"
    /\ \E seed \in 1..NumSeeds, n \in InputExtents(cfg) :
         ForwardOn(InputTensor(cfg.rank, cfg.inputs, n, seed))
    /\ UNCHANGED <<instances, pre, err, pc, cfg, ctr>>

RemoveReturns(r) ==
    /\ nodes' = r.nodes
    /\ err' = r.err

\* instance.remove() after register returned or raised
DoRemove ==
    /\ pc \in {"registered", "failed"}
    /\ RemoveReturns(Remove(nodes, instances[1]))
    /\ instances' = << >>
    /\ pc' = "removed"
    /\ UNCHANGED <<pre, cfg, out, ctr>>

NextPattern == DoRegister \/ DoForward \/ DoRemove

SpecPattern == InitPattern /\ [][NextPattern]_vars

\* ---- the matchers: apply -----------------------------------------------------
\* what apply leaves: the graph, the list it returns (nothing when it
\* raised), the exception and the next free handle id
Applied(ns, insts, e, c) == [nodes |-> ns, instances |-> insts, err |-> e, ctr |-> c]

\* the condition under which SequentialMergeBatchNorm.apply registers a pair
SequentialMatch(last_leaf, leaf) ==
    /\ IsLinear(last_leaf.kind) /\ IsBatchNorm(leaf.kind)
    /\ Len(last_leaf.weight) = Len(leaf.weight)

\* SequentialMergeBatchNorm.apply: leaf is ns[i], last_leaf is ns[i - 1]
RECURSIVE SequentialScan(_, _, _, _)
SequentialNext(r, i, insts) ==
    IF r.err # "none" THEN Applied(r.nodes, << >>, r.err, r.ctr)
    ELSE SequentialScan(r.nodes, i + 1, Append(insts, r.inst), r.ctr)
SequentialScan(ns, i, insts, c) ==
    IF i > Len(ns) THEN Applied(ns, insts, "none", c)
    ELSE IF SequentialMatch(ns[i - 1], ns[i])
    THEN SequentialNext(RegisterLeft("SequentialMergeBatchNorm", ns, <<i - 1>>, i, c),
                        i, insts)
    ELSE SequentialScan(ns, i + 1, insts, c)
SequentialApply(ns, c) == SequentialScan(ns, 2, << >>, c)

\* MergeBatchNormtoRight.apply
RECURSIVE ToRightScan(_, _, _, _)
ToRightNext(r, i, insts) ==
    IF r.err # "none" THEN Applied(r.nodes, << >>, r.err, r.ctr)
    ELSE ToRightScan(r.nodes, i + 1, Append(insts, r.inst), r.ctr)
ToRightScan(ns, i, insts, c) ==
    IF i > Len(ns) THEN Applied(ns, insts, "none", c)
    ELSE IF IsBatchNorm(ns[i - 1].kind) /\ IsLinear(ns[i].kind)
    THEN ToRightNext(RegisterRight("MergeBatchNormtoRight", ns, <<i>>, i - 1, 0, c),
                     i, insts)
    ELSE ToRightScan(ns, i + 1, insts, c)
ToRightApply(ns, c) == ToRightScan(ns, 2, << >>, c)

\* the names bound in the module: its imports and its own classes.  ReLU and
\* AdaptiveAvgPool2d, which ThreshReLUMergeBatchNorm.apply evaluates, are
\* not among them, and evaluating an unbound name raises NameError
BoundNames ==
    {"ABCMeta", "abstractmethod", "torch", "collect_leaves", "Linear", "BatchNorm",
     "ConvolutionTranspose", "Canonizer", "MergeBatchNorm", "SequentialMergeBatchNorm",
     "MergeBatchNormtoRight", "ThreshReLUMergeBatchNorm", "NamedMergeBatchNorm",
     "AttributeCanonizer", "CompositeCanonizer"}
NameBound(name) == name \in BoundNames

\* the kind of leaf i, of None before the first leaf
KindAt(ns, i) == IF i >= 1 THEN ns[i].kind ELSE "None"

\* ThreshReLUMergeBatchNorm.apply: leaf is ns[i], mid_leaf ns[i - 1],
\* old_leaf ns[i - 2], oldest_leaf ns[i - 3]; and is evaluated left to right
RECURSIVE ThreshScan(_, _, _, _)
ThreshNext(r, i, insts) ==
    IF r.err # "none" THEN Applied(r.nodes, << >>, r.err, r.ctr)
    ELSE ThreshScan(r.nodes, i + 1, Append(insts, r.inst), r.ctr)
ThreshScan(ns, i, insts, c) ==
    IF i > Len(ns) THEN Applied(ns, insts, "none", c)
    ELSE IF IsBatchNorm(KindAt(ns, i - 2)) /\ ~ NameBound("ReLU")
    THEN Applied(ns, << >>, "NameError", c)
    ELSE IF IsBatchNorm(KindAt(ns, i - 2)) /\ KindAt(ns, i - 1) = "ReLU"
            /\ IsLinear(ns[i].kind)
    THEN ThreshNext(RegisterThresh("ThreshReLUMergeBatchNorm", ns, <<i>>, i - 2, i - 1, c),
                    i, insts)
    ELSE IF IsBatchNorm(KindAt(ns, i - 3)) /\ ~ NameBound("ReLU")
    THEN Applied(ns, << >>, "NameError", c)
    ELSE IF IsBatchNorm(KindAt(ns, i - 3)) /\ KindAt(ns, i - 2) = "ReLU"
            /\ ~ NameBound("AdaptiveAvgPool2d")
    THEN Applied(ns, << >>, "NameError", c)
    ELSE IF IsBatchNorm(KindAt(ns, i - 3)) /\ KindAt(ns, i - 2) = "ReLU"
            /\ KindAt(ns, i - 1) = "AdaptiveAvgPool2d" /\ IsLinear(ns[i].kind)
    THEN ThreshNext(RegisterThresh("ThreshReLUMergeBatchNorm", ns, <<i>>, i - 3, i - 2, c),
                    i, insts)
    ELSE ThreshScan(ns, i + 1, insts, c)
ThreshApply(ns, c) == ThreshScan(ns, 1, << >>, c)

\* lookup = dict(root_module.named_modules()); lookup[name]
Known(names, name) == \E i \in 1..Len(names) : names[i] = name
Lookup(names, name) == CHOOSE i \in 1..Len(names) : names[i] = name
EntryKnown(names, entry) ==
    /\ \A j \in 1..Len(entry.linears) : Known(names, entry.linears[j])
    /\ Known(names, entry.batch_norm)

\* NamedMergeBatchNorm.apply over the entries of name_map from j on
RECURSIVE NamedScan(_, _, _, _, _, _)
NamedNext(r, names, name_map, j, insts) ==
    IF r.err # "none" THEN Applied(r.nodes, << >>, r.err, r.ctr)
    ELSE NamedScan(r.nodes, names, name_map, j + 1, Append(insts, r.inst), r.ctr)
NamedScan(ns, names, name_map, j, insts, c) ==
    IF j > Len(name_map) THEN Applied(ns, insts, "none", c)
    ELSE IF ~ EntryKnown(names, name_map[j]) THEN Applied(ns, << >>, "KeyError", c)
    ELSE NamedNext(
           RegisterLeft("NamedMergeBatchNorm", ns,
               [k \in 1..Len(name_map[j].linears) |-> Lookup(names, name_map[j].linears[k])],
               Lookup(names, name_map[j].batch_norm), c),
           names, name_map, j, insts)
NamedApply(ns, names, name_map, c) == NamedScan(ns, names, name_map, 1, << >>, c)

\* canonizer.apply(root_module) of a constituent of a composite
Apply(canonizer, ns, c) ==
    IF canonizer = "SequentialMergeBatchNorm" THEN SequentialApply(ns, c)
    ELSE IF canonizer = "MergeBatchNormtoRight" THEN ToRightApply(ns, c)
    ELSE ThreshApply(ns, c)

\* CompositeCanonizer.apply: instances += canonizer.apply(root_module) for
\* every canonizer, then instances.reverse()
ReturnOrder(insts) == Reverse(insts)

RECURSIVE CompositeScan(_, _, _, _, _)
CompositeNext(r, canonizers, j, insts) ==
    IF r.err # "none" THEN Applied(r.nodes, << >>, r.err, r.ctr)
    ELSE CompositeScan(r.nodes, canonizers, j + 1, insts \o r.instances, r.ctr)
CompositeScan(ns, canonizers, j, insts, c) ==
    IF j > Len(canonizers) THEN Applied(ns, ReturnOrder(insts), "none", c)
    ELSE CompositeNext(Apply(canonizers[j], ns, c), canonizers, j, insts)
CompositeApply(ns, canonizers, c) == CompositeScan(ns, canonizers, 1, << >>, c)

\* ---- apply and remove as the caller sees them ----------------------------------
ApplyReturns(r) ==
    /\ nodes' = r.nodes
    /\ instances' = r.instances
    /\ err' = r.err
    /\ ctr' = r.ctr
    /\ pc' = IF r.err = "none" THEN "applied" ELSE "failed"

\* the list without its i-th element
Without(insts, i) == SubSeq(insts, 1, i - 1) \o SubSeq(insts, i + 1, Len(insts))

RemovedOne(r, i) ==
    /\ nodes' = r.nodes
    /\ err' = r.err
    /\ instances' = Without(instances, i)
    /\ pc' = IF r.err = "none" THEN "removing" ELSE "remove_raised"

\* the caller removes one of the instances it holds, in an order of its choice
DoRemoveInstance ==
    /\ pc \in {"applied", "removing"}
    /\ \E i \in 1..Len(instances) : RemovedOne(Remove(nodes, instances[i]), i)
    /\ UNCHANGED <<pre, cfg, out, ctr>>

\* the caller removes the instances in the order apply returned them
DoRemoveNext ==
    /\ pc \in {"applied", "removing"}
    /\ instances # << >>
    /\ RemovedOne(Remove(nodes, instances[1]), 1)
    /\ UNCHANGED <<pre, cfg, out, ctr>>

\* ---- NamedMergeBatchNorm over a graph of named modules --------------------------
ModuleNames == <<"l1", "bn1", "l2", "bn2">>
NamedGraph(hasBias1, hasBias2, profile) ==
    << LinearModule("Linear", MaxChannels, 1, 1, hasBias1, 0, 1),
       BatchNormModule("BatchNorm1d", MaxChannels, profile),
       LinearModule("Linear", MaxChannels, MaxChannels, 1, hasBias2, 0, 1),
       BatchNormModule("BatchNorm1d", MaxChannels, profile + 1) >>

\* the entries a name map is made of: the names of the linear modules and the
\* name of the batch norm, "missing" being no module of the graph
NameMapEntries ==
    [linears : {<<"l1">>, <<"l2">>, <<"l1", "l2">>, <<"l1", "missing">>},
     batch_norm : {"bn1", "bn2", "missing"}]
NameMaps ==
    UNION {[1..n -> NameMapEntries] : n \in 1..MaxEntries}

InitNamed ==
    \E hasBias1 \in BOOLEAN, hasBias2 \in BOOLEAN, profile \in 1..3, nm \in NameMaps :
        /\ nodes = NamedGraph(hasBias1, hasBias2, profile)
        /\ cfg = [NoCfg EXCEPT !.cls = "NamedMergeBatchNorm",
                               !.names = ModuleNames, !.name_map = nm]
        /\ pre = nodes
        /\ instances = << >>
        /\ err = "none"
        /\ pc = "init"
        /\ out = NoOut
        /\ ctr = 1

DoNamedApply ==
    /\ pc = "init"
    /\ ApplyReturns(NamedApply(nodes, cfg.names, cfg.name_map, ctr))
    /\ UNCHANGED <<pre, cfg, out>>

NextNamed == DoNamedApply \/ DoRemoveInstance

SpecNamed == InitNamed /\ [][NextNamed]_vars

\* ---- SequentialMergeBatchNorm over sequences of leaves ---------------------------
\* the leaves a graph is made of; the weight of a transposed convolution is
\* (in, out, kernel), that of every other linear module (out, in, kernel)
SequentialLeaves ==
    {LinearModule(kd, d0, d1, 1, TRUE, 0, 1) :
        kd \in {"Linear", "Conv2d", "ConvTranspose2d"},
        d0 \in 1..MaxChannels, d1 \in 1..MaxChannels}
    \cup {BatchNormModule("BatchNorm2d", C, 1) : C \in 1..MaxChannels}
    \cup {Module("ReLU")}
SequentialGraphs ==
    UNION {[1..n -> SequentialLeaves] : n \in 2..MaxLeaves}

InitSequential ==
    \E g \in SequentialGraphs :
        /\ nodes = g
        /\ cfg = [NoCfg EXCEPT !.cls = "SequentialMergeBatchNorm"]
        /\ pre = nodes
        /\ instances = << >>
        /\ err = "none"
        /\ pc = "init"
        /\ out = NoOut
        /\ ctr = 1

DoSequentialApply ==
    /\ pc = "init"
    /\ ApplyReturns(SequentialApply(nodes, ctr))
    /\ UNCHANGED <<pre, cfg, out>>

NextSequential == DoSequentialApply \/ DoRemoveInstance

SpecSequential == InitSequential /\ [][NextSequential]_vars

\* ---- CompositeCanonizer over sequences of leaves ---------------------------------
\* leaves of one channel count, so that every neighbouring pair fits in shape
CompositeLeaves ==
    {LinearModule("Linear", MaxChannels, MaxChannels, 1, hasBias, 0, 1) :
        hasBias \in BOOLEAN}
    \cup {LinearModule("Conv2d", MaxChannels, MaxChannels, MaxKernel, TRUE, 1, 1),
          BatchNormModule("BatchNorm2d", MaxChannels, 1),
          Module("ReLU"), Module("AdaptiveAvgPool2d")}
CompositeGraphs ==
    UNION {[1..n -> CompositeLeaves] : n \in 1..MaxLeaves}
CanonizerLists ==
    UNION {[1..n -> PatternClasses] : n \in 1..MaxCanonizers}

InitComposite ==
    \E g \in CompositeGraphs, cs \in CanonizerLists :
        /\ nodes = g
        /\ cfg = [NoCfg EXCEPT !.cls = "CompositeCanonizer", !.canonizers = cs]
        /\ pre = nodes
        /\ instances = << >>
        /\ err = "none"
        /\ pc = "init"
        /\ out = NoOut
        /\ ctr = 1

DoCompositeApply ==
    /\ pc = "init"
    /\ ApplyReturns(CompositeApply(nodes, cfg.canonizers, ctr))
    /\ UNCHANGED <<pre, cfg, out>>

NextComposite == DoCompositeApply \/ DoRemoveNext

SpecComposite == InitComposite /\ [][NextComposite]_vars

\* ---- canonizer objects: construction and copy() ---------------------------------
\* what __init__ leaves on an object: no module, no snapshot, no handle
Unregistered(cls) ==
    [cls |-> cls, linears |-> None, batch_norm |-> 0, relu |-> 0,
     linear_params |-> None, batch_norm_params |-> None, batch_norm_eps |-> None,
     handles |-> << >>]

\* the number of arguments __init__ requires besides self
InitArity(cls) ==
    IF cls \in {"NamedMergeBatchNorm", "AttributeCanonizer", "CompositeCanonizer"}
    THEN 1 ELSE 0

\* a canonizer object: its class, what __init__ was given, and what register
\* has stored on it
Canonizer(cls, name_map, attribute_map, canonizers) ==
    [cls |-> cls, name_map |-> name_map, attribute_map |-> attribute_map,
     canonizers |-> canonizers, reg |-> Unregistered(cls)]

\* cls(*args): TypeError when a required argument is missing
Construct(cls, args) ==
    IF Len(args) # InitArity(cls)
    THEN [err |-> "TypeError", obj |-> Canonizer("none", None, None, None)]
    ELSE [err |-> "none",
          obj |-> Canonizer(cls,
                     IF cls = "NamedMergeBatchNorm" THEN args[1] ELSE None,
                     IF cls = "AttributeCanonizer" THEN args[1] ELSE None,
                     IF cls = "CompositeCanonizer" THEN args[1] ELSE None)]

\* self.copy(): NamedMergeBatchNorm and AttributeCanonizer override it, every
\* other class inherits Canonizer.copy, which is self.__class__()
Copy(self) ==
    IF self.cls = "NamedMergeBatchNorm" THEN Construct(self.cls, <<self.name_map>>)
    ELSE IF self.cls = "AttributeCanonizer"
    THEN Construct("AttributeCanonizer", <<self.attribute_map>>)
    ELSE Construct(self.cls, << >>)

\* ---- a canonizer object that is registered, copied, applied -----------------------
\* attribute maps: the kinds of module they apply to and the keys they set
AttributeMaps ==
    [kinds : SUBSET {"Linear", "ReLU"}, keys : {<<"forward">>, <<"forward", "inplace">>}]

Canonizers ==
    {Canonizer(cls, None, None, None) : cls \in PatternClasses}
    \cup {Canonizer("NamedMergeBatchNorm", nm, None, None) : nm \in NameMaps}
    \cup {Canonizer("AttributeCanonizer", None, am, None) : am \in AttributeMaps}
    \cup {Canonizer("CompositeCanonizer", None, None, cs) : cs \in CanonizerLists}

FullyConnectedShape == [kind |-> "Linear", k |-> 1, pad |-> 0, stride |-> 1]

\* the leaves the canonizer is used on
CopyGraph(cls) ==
    IF cls \in PatternClasses
    THEN PatternGraph(cls, FullyConnectedShape, MaxChannels, MaxChannels, TRUE, 1, FALSE)
    ELSE NamedGraph(TRUE, TRUE, 1)

InitCopy ==
    \E self \in Canonizers :
        /\ cfg = self
        /\ nodes = CopyGraph(self.cls)
        /\ pre = nodes
        /\ instances = << >>
        /\ err = "none"
        /\ pc = "init"
        /\ out = NoOut
        /\ ctr = 1

\* self.register(...) on the canonizer itself, on the first pair that fits
SelfRegister(self, ns, c) ==
    IF self.cls = "NamedMergeBatchNorm"
    THEN RegisterLeft(self.cls, ns, <<1>>, 2, c)
    ELSE Register(self.cls, ns,
                  PatternCfg(self.cls, FullyConnectedShape, 1, 1, FALSE).linears,
                  PatternCfg(self.cls, FullyConnectedShape, 1, 1, FALSE).batch_norm,
                  PatternCfg(self.cls, FullyConnectedShape, 1, 1, FALSE).relu, c)

SelfRegistered(r) ==
    /\ nodes' = r.nodes
    /\ err' = r.err
    /\ ctr' = r.ctr
    /\ cfg' = [cfg EXCEPT !.reg = r.inst]

DoSelfRegister ==
    /\ pc = "init"
    /\ cfg.cls \in PatternClasses \cup {"NamedMergeBatchNorm"}
    /\ SelfRegistered(SelfRegister(cfg, nodes, ctr))
    /\ pc' = "registered"
    /\ UNCHANGED <<instances, pre, out>>

CopyReturns(r) ==
    /\ err' = r.err
    /\ instances' = IF r.err = "none" THEN << r.obj >> ELSE << >>
    /\ pc' = IF r.err = "none" THEN "copied" ELSE "copy_raised"

\* self.copy() on a canonizer, registered or not
DoCopy ==
    /\ pc \in {"init", "registered"}
    /\ CopyReturns(Copy(cfg))
    /\ UNCHANGED <<nodes, pre, cfg, out, ctr>>

\* self.apply(root_module)
SelfApply(self, ns, c) ==
    IF self.cls = "NamedMergeBatchNorm" THEN NamedApply(ns, ModuleNames, self.name_map, c)
    ELSE IF self.cls = "CompositeCanonizer" THEN CompositeApply(ns, self.canonizers, c)
    ELSE Apply(self.cls, ns, c)

DoSelfApply ==
    /\ pc \in {"init", "registered"}
    /\ cfg.cls # "AttributeCanonizer"
    /\ ApplyReturns(SelfApply(cfg, nodes, ctr))
    /\ UNCHANGED <<pre, cfg, out>>

NextCopy == DoSelfRegister \/ DoCopy \/ DoSelfApply

SpecCopy == InitCopy /\ [][NextCopy]_vars

\* ---- ThreshReLUMergeBatchNorm over sequences of leaves ----------------------------
InitThresh ==
    \E g \in CompositeGraphs :
        /\ nodes = g
        /\ cfg = [NoCfg EXCEPT !.cls = "ThreshReLUMergeBatchNorm"]
        /\ pre = nodes
        /\ instances = << >>
        /\ err = "none"
        /\ pc = "init"
        /\ out = NoOut
        /\ ctr = 1

DoThreshApply ==
    /\ pc = "init"
    /\ ApplyReturns(ThreshApply(nodes, ctr))
    /\ UNCHANGED <<pre, cfg, out>>

\* apply returns no instance the caller could remove: see ThreshScan
NextThresh == DoThreshApply

SpecThresh == InitThresh /\ [][NextThresh]_vars

\* ==== the claims ================================================================
\* the linear module of the pattern, before and after register
PatternLinear == cfg.linears[1]
IsLeftPattern == cfg.cls = "SequentialMergeBatchNorm"
IsRightPattern == cfg.cls = "MergeBatchNormtoRight"
IsThreshPattern == cfg.cls = "ThreshReLUMergeBatchNorm"

\* C1: register() followed by remove() (with or without forward passes in
\* between) raises nothing and leaves every node as it was before register:
\* weight and bias of the linear module (an absent bias absent again), the
\* four batch norm parameters and eps, no hook and no canonization_params.
C1_RoundTrip ==
    pc = "removed" => (err = "none" /\ nodes = pre)

\* a threshold instance on a padded Conv2d without bias has been registered,
\* evaluated and removed
C1_Witness ==
    /\ pc = "removed"
    /\ IsThreshPattern
    /\ cfg.shape.kind = "Conv2d" /\ cfg.shape.pad = 1
    /\ pre[PatternLinear].bias = None
    /\ out.x # ShapeError

\* C5: after left-fusion register the linear module has W' = W * scale along
\* its output-channel axis and b' = (b - mean) * scale + bias (b = 0 when the
\* module had no bias), the batch norm is the identity, and every forward
\* pass gives the output the original pair gave on the same input.
OutIndex(kind, a, b) == IF IsConvolutionTranspose(kind) THEN b ELSE a
C5_LeftFusion ==
    (IsLeftPattern /\ pc = "registered") =>
        LET L == pre[1]
            N == pre[2]
            scale == Scale(N)
        IN /\ \A a \in 1..Len(L.weight), b \in 1..Len(L.weight[1]), t \in 1..Len(L.weight[1][1]) :
                nodes[1].weight[a][b][t] = L.weight[a][b][t] * scale[OutIndex(L.kind, a, b)]
           /\ Len(nodes[1].bias) = Len(N.weight)
           /\ \A o \in 1..Len(N.weight) :
                nodes[1].bias[o] =
                    (BiasAt(L.bias, o) - N.running_mean[o]) * scale[o] + N.bias[o]
           /\ nodes[2].running_mean = Zeros(Len(N.weight))
           /\ nodes[2].running_var = Ones(Len(N.weight))
           /\ nodes[2].bias = Zeros(Len(N.weight))
           /\ nodes[2].weight = Ones(Len(N.weight))
           /\ nodes[2].eps = 0
           /\ out.x # ShapeError =>
                (out.y # ShapeError /\ out.y = Run(pre, 1, 2, out.x).out)

\* a transposed convolution without bias and with different channel counts
\* has been fused and evaluated
C5_Witness ==
    /\ IsLeftPattern /\ pc = "registered"
    /\ pre[1].kind = "ConvTranspose2d"
    /\ Len(pre[1].weight) # Len(pre[1].weight[1])
    /\ pre[1].bias = None
    /\ out.x # ShapeError /\ out.y # ShapeError

\* the weight of linear module L between output channel o and input channel i
WeightAt(L, o, i, t) ==
    IF IsConvolutionTranspose(L.kind) THEN L.weight[i][o][t] ELSE L.weight[o][i][t]
OutLen(L) == IF IsConvolutionTranspose(L.kind) THEN Len(L.weight[1]) ELSE Len(L.weight)
InLen(L) == IF IsConvolutionTranspose(L.kind) THEN Len(L.weight) ELSE Len(L.weight[1])

\* sum over the input axes of W * shift, for output channel o
ShiftThrough(L, shift, o) ==
    SumSeq([i \in 1..InLen(L) |->
        SumSeq([t \in 1..Len(L.weight[1][1]) |-> WeightAt(L, o, i, t) * shift[i]])])

\* C6: after right-fusion register of a module that is fully-connected or
\* has zero padding (any Linear-kind), W' = W * scale over the input-channel
\* axis and b' = sum over the input axes of W * shift, plus b, and every
\* forward pass gives the output the original pair gave on the same input.
C6_RightFusion ==
    (IsRightPattern /\ pc = "registered" /\ ZeroPadding(pre[2])) =>
        LET N == pre[1]
            L == pre[2]
            scale == Scale(N)
            shift == Shift(N, scale)
        IN /\ \A o \in 1..OutLen(L), i \in 1..InLen(L), t \in 1..Len(L.weight[1][1]) :
                WeightAt(nodes[2], o, i, t) = WeightAt(L, o, i, t) * scale[i]
           /\ \A o \in 1..OutLen(L) :
                nodes[2].bias[o] = ShiftThrough(L, shift, o) + BiasAt(L.bias, o)
           /\ out.x # ShapeError =>
                (out.y # ShapeError /\ out.y = Run(pre, 1, 2, out.x).out)

\* C7: a matched linear module without bias is no error in either direction:
\* register returns, and the bias it leaves is the one it leaves when the
\* module has an all-zero bias of its output-channel shape.
WithZeroBias(ns, l) == [ns EXCEPT ![l].bias = Zeros(OutLen(ns[l]))]
C7_MissingBias ==
    (pc \in {"registered", "failed"} /\ pre[PatternLinear].bias = None) =>
        /\ err = "none"
        /\ nodes[PatternLinear].bias =
              Register(cfg.cls, WithZeroBias(pre, PatternLinear), cfg.linears,
                       cfg.batch_norm, cfg.relu, 1).nodes[PatternLinear].bias

\* C8 as claimed: for the scale and shift register stores on the activation,
\* whatever the sign of the scale, the branch condition y > 0 of the hook
\* holds exactly when x > baseline.
XRange == (0 - MaxInput)..MaxInput
C8_BoundaryAnySign ==
    (IsThreshPattern /\ pc = "registered") =>
        \A c \in 1..Len(nodes[2].cp.weights), x \in XRange :
            BranchTaken(nodes[2].cp, c, x) <=> x > BaselineVals(nodes[2].cp)[c]

\* C8 as amended: y > 0 holds exactly when x > baseline in a channel of
\* positive scale, and exactly when x < baseline in a channel of negative
\* scale.
C8_BoundaryBySign ==
    (IsThreshPattern /\ pc = "registered") =>
        \A c \in 1..Len(nodes[2].cp.weights), x \in XRange :
            /\ nodes[2].cp.weights[c] > 0 =>
                 (BranchTaken(nodes[2].cp, c, x) <=> x > BaselineVals(nodes[2].cp)[c])
            /\ nodes[2].cp.weights[c] < 0 =>
                 (BranchTaken(nodes[2].cp, c, x) <=> x < BaselineVals(nodes[2].cp)[c])

\* a registered threshold instance with a channel of positive and a channel
\* of negative scale, each with a baseline inside the range compared
C8_Witness ==
    /\ IsThreshPattern /\ pc = "registered"
    /\ \E c, d \in 1..Len(nodes[2].cp.weights) :
          /\ nodes[2].cp.weights[c] > 0 /\ nodes[2].cp.weights[d] < 0
          /\ BaselineVals(nodes[2].cp)[c] \in XRange
          /\ BaselineVals(nodes[2].cp)[d] \in XRange

\* C9: in every forward pass between register and remove the activation
\* gives, element by element of the input x its pre-hook captured, x where
\* scale * x + shift > 0 and baseline elsewhere, scale and shift being those
\* of the batch norm as it was before register.
ExpectedActivation(N, x) ==
    [c \in 1..Len(x.v) |->
        [h \in 1..Len(x.v[c]) |->
            IF Scale(N)[c] * x.v[c][h] + Shift(N, Scale(N))[c] > 0
            THEN x.v[c][h]
            ELSE 0 - Div(Shift(N, Scale(N))[c], Scale(N)[c])]]
C9_SignPreserved ==
    (IsThreshPattern /\ pc = "registered" /\ out.x # ShapeError) =>
        /\ nodes[2].cp.original_x = out.x
        /\ out.act.v = ExpectedActivation(pre[1], out.x)

\* C2: when NamedMergeBatchNorm.apply fails on an entry naming a module the
\* graph does not have, it leaves the graph as it found it, whatever the
\* position of that entry in the name map.
C2_FailureAtomic ==
    (cfg.cls = "NamedMergeBatchNorm" /\ pc = "failed" /\ err = "KeyError")
        => nodes = pre

\* C3: CompositeCanonizer.apply returns its instances, last registered
\* first, and removing them in the order given restores every parameter of
\* the graph, also when a left fusion and a threshold instance act on the
\* same batch norm: no call raises, and once the last instance is removed
\* the graph is the one apply was given.
C3_CompositeRestores ==
    cfg.cls = "CompositeCanonizer" =>
        /\ pc \notin {"failed", "remove_raised"}
        /\ err = "none"
        /\ (pc \in {"applied", "removing"} /\ instances = << >>) => nodes = pre

\* C4: the instances NamedMergeBatchNorm.apply returns (the names of one
\* entry may appear in another) can be removed one by one in any order, in
\* particular in the order returned: no removal raises, and once all are
\* removed every module holds its original parameters.
C4_IndependentRevert ==
    cfg.cls = "NamedMergeBatchNorm" =>
        /\ pc # "remove_raised"
        /\ (pc = "removing" /\ instances = << >>) => nodes = pre

\* the pair of leaves i, i + 1 has an instance among those apply returned
PairRegistered(i) ==
    \E k \in 1..Len(instances) :
        instances[k].linears = <<i>> /\ instances[k].batch_norm = i + 1

\* the pair of leaves i, i + 1 of the graph given to apply is a linear module
\* followed by a batch norm of as many channels as the linear module has
\* output channels (axis 1 of a transposed convolution's weight, axis 0 of
\* any other)
PairFits(i) ==
    /\ IsLinear(pre[i].kind) /\ IsBatchNorm(pre[i + 1].kind)
    /\ OutLen(pre[i]) = Len(pre[i + 1].weight)

C11_CopyUnregistered ==
    pc \in {"copied", "copy_raised"} =>
        /\ err = "none"
        /\ Len(instances) = 1
        /\ instances[1].cls = cfg.cls
        /\ instances[1].reg.linears = None
        /\ instances[1].reg.linear_params = None
        /\ instances[1].reg.batch_norm_params = None
        /\ instances[1].reg.handles = << >>
        /\ instances[1].name_map = cfg.name_map
        /\ instances[1].attribute_map = cfg.attribute_map
        /\ instances[1].canonizers = cfg.canonizers

\* the output of padded convolution m, all zero, for an input of extent n
ZeroOutput(m, n) ==
    Tensor(4, [o \in 1..Len(m.weight) |->
                 [q \in 1..OutExtent(n, Len(m.weight[1][1]), m.padding[1], m.stride[1]) |-> 0]])

\* the map convhook adds to the output of m for input x
AddedMap(m, x) == ConvHook(m, x, ZeroOutput(m, Extent(x)))

\* an input of extent n whose every pixel is shift
ShiftInput(shift, n) == Tensor(4, [c \in 1..Len(shift) |-> [h \in 1..n |-> shift[c]]])

\* the row of the bias kernel (2p + 1 rows) behind position j, counted from
\* 0, of the stride-1 output: the first p rows, the interior row n - k + 1
\* times, the last p rows
KernelRow(j, n, k, p) ==
    IF j < p THEN j + 1 ELSE IF j <= p + n - k THEN p + 1 ELSE j - (n - k) + 1

\* the claim for convolution L (as it was before register) with the bias
\* kernel bk stored at register, added map M and input extent n
BiasMapAsClaimed(L, shift, bk, M, n) ==
    /\ M # ShapeError
    /\ \A o \in 1..Len(L.weight) :
         /\ Len(M.v[o]) = OutExtent(n, Len(L.weight[1][1]), L.padding[1], L.stride[1])
         /\ \A q \in 1..Len(M.v[o]) :
              /\ M.v[o][q] = bk[o][KernelRow((q - 1) * L.stride[1], n,
                                             Len(L.weight[1][1]), L.padding[1])]
              /\ M.v[o][q] =
                   Convolution([L EXCEPT !.bias = None], ShiftInput(shift, n), 4).v[o][q]

\* C12: for a zero-padded Conv2d with kernel k, padding p > 0, stride s and
\* input extent n >= k, the map the hook adds has floor((n + 2p - k) / s) + 1
\* positions along the axis, is the first p rows of the bias kernel, its
\* interior row n - k + 1 times and its last p rows, kept at the multiples
\* of s, and each value is the response of the bias-free convolution at that
\* position to an input of extent n whose every pixel is shift.
C12_BiasMap ==
    (pc = "registered" /\ (IsRightPattern \/ IsThreshPattern)
     /\ pre[PatternLinear].kind = "Conv2d" /\ pre[PatternLinear].padding[1] > 0
     /\ out.x # ShapeError) =>
        BiasMapAsClaimed(pre[PatternLinear],
                         Shift(pre[cfg.batch_norm], Scale(pre[cfg.batch_norm])),
                         nodes[PatternLinear].cp.bias_kernel,
                         AddedMap(nodes[PatternLinear], out.x),
                         Extent(out.x))

\* a padded convolution of stride 2 has been evaluated on an input longer
\* than its kernel, and the map added differs between border and interior
C12_Witness ==
    /\ pc = "registered" /\ IsRightPattern
    /\ pre[2].kind = "Conv2d" /\ pre[2].padding[1] > 0 /\ pre[2].stride[1] = 2
    /\ out.x # ShapeError /\ out.y # ShapeError
    /\ Extent(out.x) > Len(pre[2].weight[1][1])
    /\ \E o \in 1..Len(pre[2].weight) :
          nodes[2].cp.bias_kernel[o][1] # nodes[2].cp.bias_kernel[o][pre[2].padding[1] + 1]

\* the last three leaves at position i of the graph given to apply are batch
\* norm, activation, linear module; the last four are batch norm,
\* activation, global pooling, linear module
ThreeWindow(i) ==
    /\ i >= 3
    /\ IsBatchNorm(pre[i - 2].kind) /\ pre[i - 1].kind = "ReLU" /\ IsLinear(pre[i].kind)
FourWindow(i) ==
    /\ i >= 4
    /\ IsBatchNorm(pre[i - 3].kind) /\ pre[i - 2].kind = "ReLU"
    /\ pre[i - 1].kind = "AdaptiveAvgPool2d" /\ IsLinear(pre[i].kind)

\* the instances returned whose linear module is leaf i
InstancesAt(i) == {k \in 1..Len(instances) : instances[k].linears = <<i>>}

\* leaf n is the linear module, the activation or the batch norm of instance k
RegisteredBy(n, k) ==
    instances[k].linears = <<n>> \/ instances[k].relu = n \/ instances[k].batch_norm = n

\* C13: ThreshReLUMergeBatchNorm.apply scans the leaves to the end and
\* returns; at each position it has registered exactly one instance when
\* the last three leaves are batch norm, activation, linear module,
\* otherwise exactly one when the last four are batch norm, activation,
\* global pooling, linear module, otherwise none; no pooling leaf is
\* changed and no leaf is registered by two instances.
C13_WindowMatching ==
    (cfg.cls = "ThreshReLUMergeBatchNorm" /\ pc \in {"applied", "failed"}) =>
        /\ err = "none"
        /\ \A i \in 1..Len(pre) :
             /\ ThreeWindow(i) =>
                  /\ Cardinality(InstancesAt(i)) = 1
                  /\ \A k \in InstancesAt(i) :
                        instances[k].batch_norm = i - 2 /\ instances[k].relu = i - 1
             /\ (~ ThreeWindow(i) /\ FourWindow(i)) =>
                  /\ Cardinality(InstancesAt(i)) = 1
                  /\ \A k \in InstancesAt(i) :
                        instances[k].batch_norm = i - 3 /\ instances[k].relu = i - 2
             /\ (~ ThreeWindow(i) /\ ~ FourWindow(i)) => InstancesAt(i) = {}
             /\ pre[i].kind = "AdaptiveAvgPool2d" => nodes[i] = pre[i]
             /\ \A k1, k2 \in 1..Len(instances) :
                  (RegisteredBy(i, k1) /\ RegisteredBy(i, k2)) => k1 = k2

====
